---- MODULE Spec2Model ----
(***************************************************************************)
(* A model of cbz/page.py: class PageInfo (a PageModel that owns the bytes *)
(* of one page and the metadata derived from them), its content setter,    *)
(* and the loaders loads / load and the saver save.                        *)
(*                                                                         *)
(* Bytes are sequences of integers 0..255.  A page image is abstracted to  *)
(* a three byte header <<signature, width, height>>: the first byte stands *)
(* for the magic number libmagic looks at, the two following bytes for the *)
(* header fields imagesize reads.  A buffer that holds only the signature  *)
(* is a file cut off after its magic number.                               *)
(***************************************************************************)
EXTENDS Integers, Sequences, FiniteSets, TLC

VARIABLES
    pages,    \* instance name -> the PageInfo object bound to it (or NoPage)
    built,    \* instance name -> TRUE while the object is as __init__ left it
    files,    \* path -> bytes of the file, or Missing
    lastOp    \* the call made last: its arguments and how it ended

vars == <<pages, built, files, lastOp>>

----------------------------------------------------------------------------
(* Bounds *)

\* pixel dimensions a header can carry are 1..MaxDim
MaxDim == 2
\* longest str handed to loads
MaxStr == 5

----------------------------------------------------------------------------
(* Values *)

Instances == {"p", "q"}
Paths == {"a"}

\* Python's None
None == "None"
\* a path that does not resolve to a file
Missing == "Missing"

\* cbz.constants.IMAGE_FORMAT, the allow-list of suffixes
IMAGE_FORMAT == {".jpg", ".png", ".gif", ".webp", ".bmp"}

\* leading bytes: 0x89 (PNG), 0xFF (JPEG), 0x49 (TIFF "II*"), 0x00 (no signature)
LeadBytes == {137, 255, 73, 0}
Dims == 1..MaxDim

\* the byte buffers callers pass: empty, a bare signature, a whole header
InputBytes ==
    {<<>>} \cup {<<s>> : s \in LeadBytes}
           \cup {<<s, w, h>> : s \in LeadBytes, w \in Dims, h \in Dims}

\* the object fields this module is about
MetaFields == {"suffix", "image_width", "image_height", "image_size"}

\* a name no object is bound to
NoPage ==
    [exists |-> FALSE, content |-> <<>>, suffix |-> None,
     image_width |-> None, image_height |-> None, image_size |-> None]

\* no keyword arguments
NoKwargs == [f \in {} |-> None]

\* keyword arguments a caller may pass on to the base class initializer
Kwargs ==
    { [f \in S |-> IF f = "suffix" THEN ".zip" ELSE 99] :
        S \in {{}, {"suffix"}, {"image_width", "image_height"}, MetaFields} }

----------------------------------------------------------------------------
(* The libraries the setter calls *)

\* magic.from_buffer(value, mime=True)
Sniff(value) ==
    IF Len(value) = 0 THEN "application/x-empty"
    ELSE CASE value[1] = 137 -> "image/png"
           [] value[1] = 255 -> "image/jpeg"
           [] value[1] = 73  -> "image/tiff"
           [] OTHER          -> "application/octet-stream"

\* mimetypes.guess_extension(filetype)
GuessExtension(filetype) ==
    CASE filetype = "image/png"  -> ".png"
      [] filetype = "image/jpeg" -> ".jpg"
      [] filetype = "image/tiff" -> ".tiff"
      [] filetype = "application/octet-stream" -> ".bin"
      [] OTHER -> None

\* imagesize.get(file_io): width and height start at -1 and stay there when
\* no header is understood; a PNG needs its IHDR chunk; the JPEG branch
\* raises ValueError when the stream ends inside the marker scan.
ImagesizeGet(value) ==
    IF Len(value) >= 3 /\ value[1] \in {137, 255}
    THEN [raised |-> None, width |-> value[2], height |-> value[3]]
    ELSE IF Len(value) >= 1 /\ value[1] = 255
    THEN [raised |-> "ValueError", width |-> -1, height |-> -1]
    ELSE [raised |-> None, width |-> -1, height |-> -1]

\* isinstance(x, int)
IsInt(x) == x \in Int

\* the characters of a str handed to loads: a letter of the base64 alphabet,
\* the padding character and a character outside the alphabet
Chars == {"/", "=", "!"}

RECURSIVE StringsUpTo(_)
StringsUpTo(n) ==
    IF n = 0 THEN {<<>>}
    ELSE LET shorter == StringsUpTo(n - 1)
         IN  shorter \cup {Append(s, c) : s \in {x \in shorter : Len(x) = n - 1},
                                          c \in Chars}

\* binascii's table_a2b_base64: the six bit value of a character, 64 for a
\* character that is not in the alphabet
B64Value(c) ==
    CASE c = "/" -> 63
      [] OTHER   -> 64

\* binascii.a2b_base64 in its default, non strict mode, one character per
\* step: characters outside the alphabet are skipped, padding ends the input
\* once the open quad is complete, and what follows it is never read.
RECURSIVE A2bBase64(_, _, _, _, _, _)
A2bBase64(s, k, quad_pos, leftchar, pads, out) ==
    IF k > Len(s)
    THEN IF quad_pos # 0 THEN [raised |-> "binascii.Error", data |-> <<>>]
         ELSE [raised |-> None, data |-> out]
    ELSE
      LET ch == s[k] v == B64Value(ch)
      IN  IF ch = "="
          THEN IF quad_pos >= 2 /\ quad_pos + pads + 1 >= 4
               THEN [raised |-> None, data |-> out]
               ELSE A2bBase64(s, k + 1, quad_pos, leftchar,
                              IF quad_pos >= 2 THEN pads + 1 ELSE pads, out)
          ELSE IF v >= 64
          THEN A2bBase64(s, k + 1, quad_pos, leftchar, pads, out)
          ELSE CASE quad_pos = 0 ->
                      A2bBase64(s, k + 1, 1, v, 0, out)
                 [] quad_pos = 1 ->
                      A2bBase64(s, k + 1, 2, v % 16, 0,
                                Append(out, leftchar * 4 + v \div 16))
                 [] quad_pos = 2 ->
                      A2bBase64(s, k + 1, 3, v % 4, 0,
                                Append(out, leftchar * 16 + v \div 4))
                 [] OTHER ->
                      A2bBase64(s, k + 1, 0, 0, 0,
                                Append(out, leftchar * 64 + v))

\* base64.b64decode(data) for a str
B64Decode(s) == A2bBase64(s, 1, 0, 0, 0, <<>>)

\* what callers hand to loads: a str, bytes, or an object of another type
Strings == StringsUpTo(MaxStr)
StrInputs == {[t |-> "str", v |-> s] : s \in Strings}
BytesInputs == {[t |-> "bytes", v |-> b] : b \in InputBytes}
OtherInputs == {[t |-> "other", v |-> <<>>]}

\* what callers hand to load: a path, or an object that is no path
NotAPath == "NotAPath"
LoadInputs == Paths \cup {NotAPath}

----------------------------------------------------------------------------
(* PageInfo *)

\* DerivedSuffix without the `or ".bin"` fallback
DerivedSuffix_NoFallback(value) == GuessExtension(Sniff(value))

\* line 54: self.suffix = mimetypes.guess_extension(filetype) or ".bin"
DerivedSuffix(value) ==
    LET ext == GuessExtension(Sniff(value))
    IN  IF ext = None THEN ".bin" ELSE ext

\* The setter with image_size stored next to suffix, ahead of the checks
ContentSetter_SizeEarly(self, value) ==
    LET s1 == [self EXCEPT !.suffix = DerivedSuffix(value),
                           !.image_size = Len(value)]
    IN  IF s1.suffix \notin IMAGE_FORMAT
        THEN [page |-> s1, raised |-> "AssertionError", msg |-> s1.suffix,
              probed |-> FALSE]
        ELSE
          LET got == ImagesizeGet(value)
          IN  IF got.raised # None
              THEN [page |-> s1, raised |-> got.raised, msg |-> None,
                    probed |-> TRUE]
              ELSE [page |-> [s1 EXCEPT !.image_width = got.width,
                                        !.image_height = got.height,
                                        !.content = value,
                                        !.exists = TRUE],
                    raised |-> None, msg |-> None, probed |-> TRUE]

\* The setter with the dimension probe moved ahead of the assert
ContentSetter_ProbeFirst(self, value) ==
    LET s1 == [self EXCEPT !.suffix = DerivedSuffix(value)]
        got == ImagesizeGet(value)
    IN  IF got.raised # None
        THEN [page |-> s1, raised |-> got.raised, msg |-> None,
              probed |-> TRUE]
        ELSE IF s1.suffix \notin IMAGE_FORMAT
        THEN [page |-> s1, raised |-> "AssertionError", msg |-> s1.suffix,
              probed |-> TRUE]
        ELSE [page |-> [s1 EXCEPT !.image_width = got.width,
                                  !.image_height = got.height,
                                  !.image_size = Len(value),
                                  !.content = value,
                                  !.exists = TRUE],
              raised |-> None, msg |-> None, probed |-> TRUE]

\* The content setter, statement by statement.  The result is the object as
\* the call leaves it, the exception that ended the call (None when it
\* returned), the exception's message argument, and whether imagesize.get
\* was called.
ContentSetter(self, value) ==
    LET s1 == [self EXCEPT !.suffix = DerivedSuffix(value)]
    IN  IF s1.suffix \notin IMAGE_FORMAT
        THEN [page |-> s1, raised |-> "AssertionError", msg |-> s1.suffix,
              probed |-> FALSE]
        ELSE
          LET got == ImagesizeGet(value)
          IN  IF got.raised # None
              THEN [page |-> s1, raised |-> got.raised, msg |-> None,
                    probed |-> TRUE]
              ELSE
                LET bad == ~IsInt(got.width) \/ ~IsInt(got.height)
                    width  == IF bad THEN 0 ELSE got.width
                    height == IF bad THEN 0 ELSE got.height
                IN  [page |-> [s1 EXCEPT !.image_width = width,
                                         !.image_height = height,
                                         !.image_size = Len(value),
                                         !.content = value,
                                         !.exists = TRUE],
                     raised |-> None, msg |-> None, probed |-> TRUE]

\* PageModel.__init__(**kwargs): the base class stores the keyword arguments
\* in the fields of the same name
PageModelInit(kwargs) ==
    [f \in DOMAIN NoPage |->
        IF f \in DOMAIN kwargs THEN kwargs[f] ELSE NoPage[f]]

\* __init__ with the two statements swapped: the base class initializer
\* stores the keyword arguments over what the setter derived
PageInfoInit_KwargsLast(content, kwargs) ==
    LET r == ContentSetter(NoPage, content)
    IN  [r EXCEPT !.page = [f \in DOMAIN NoPage |->
                              IF f \in DOMAIN kwargs THEN kwargs[f]
                              ELSE r.page[f]]]

\* PageInfo.__init__(content, **kwargs): base class first, then the setter
PageInfoInit(content, kwargs) ==
    ContentSetter(PageModelInit(kwargs), content)

Outcome(op, inst, arg, kwargs, r) ==
    [op |-> op, inst |-> inst, arg |-> arg, kwargs |-> DOMAIN kwargs,
     raised |-> r.raised, msg |-> r.msg, probed |-> r.probed]

\* x = PageInfo(content, **kwargs): the name is bound only when __init__ returns
Construct(i, content, kwargs) ==
    /\ ~pages[i].exists
    /\ LET r == PageInfoInit(content, kwargs)
       IN  /\ pages' = IF r.raised = None THEN [pages EXCEPT ![i] = r.page]
                       ELSE pages
           /\ built' = [built EXCEPT ![i] = (r.raised = None)]
           /\ lastOp' = Outcome("init", i, [t |-> "bytes", v |-> content], kwargs, r)
    /\ UNCHANGED files

\* x.content = value on an object that exists
SetContent(i, value) ==
    /\ pages[i].exists
    /\ LET r == ContentSetter(pages[i], value)
       IN  /\ pages' = [pages EXCEPT ![i] = r.page]
           /\ lastOp' = Outcome("set", i, [t |-> "bytes", v |-> value], NoKwargs, r)
    /\ built' = [built EXCEPT ![i] = FALSE]
    /\ UNCHANGED files

\* an exception raised before the constructor is reached
Raised(exc) == [raised |-> exc, msg |-> None, probed |-> FALSE]

\* PageInfo.loads(data, **kwargs): lines 84-88
LoadsResult(data, kwargs) ==
    LET decoded == IF data.t = "str" THEN B64Decode(data.v)
                   ELSE [raised |-> None, data |-> data.v]
        isBytes == IF data.t = "str" THEN TRUE ELSE data.t = "bytes"
    IN  IF decoded.raised # None THEN Raised(decoded.raised)
        ELSE IF ~isBytes THEN Raised("ValueError")
        ELSE PageInfoInit(decoded.data, kwargs)

\* x = PageInfo.loads(data, **kwargs)
Loads(i, data, kwargs) ==
    /\ ~pages[i].exists
    /\ LET r == LoadsResult(data, kwargs)
       IN  /\ pages' = IF r.raised = None THEN [pages EXCEPT ![i] = r.page]
                       ELSE pages
           /\ built' = [built EXCEPT ![i] = (r.raised = None)]
           /\ lastOp' = Outcome("loads", i, data, kwargs, r)
    /\ UNCHANGED files

\* PageInfo.load(path, **kwargs): lines 106-109
LoadResult(path, kwargs) ==
    IF path \notin Paths THEN Raised("ValueError")
    ELSE IF files[path] = Missing THEN Raised("FileNotFoundError")
    ELSE PageInfoInit(files[path], kwargs)

\* x = PageInfo.load(path, **kwargs)
Load(i, path, kwargs) ==
    /\ ~pages[i].exists
    /\ LET r == LoadResult(path, kwargs)
       IN  /\ pages' = IF r.raised = None THEN [pages EXCEPT ![i] = r.page]
                       ELSE pages
           /\ built' = [built EXCEPT ![i] = (r.raised = None)]
           /\ lastOp' = Outcome("load", i, [t |-> "path", v |-> path], kwargs, r)
    /\ UNCHANGED files

\* x.save(path): the file is created or truncated, then the getter's bytes
\* are written
Save(i, path) ==
    /\ pages[i].exists
    /\ files' = [files EXCEPT ![path] = pages[i].content]
    /\ lastOp' = Outcome("save", i, [t |-> "path", v |-> path], NoKwargs,
                          Raised(None))
    /\ UNCHANGED <<pages, built>>

----------------------------------------------------------------------------

Init ==
    /\ pages = [i \in Instances |-> NoPage]
    /\ built = [i \in Instances |-> FALSE]
    /\ files = [f \in Paths |-> Missing]
    /\ lastOp = [op |-> "none", inst |-> None, arg |-> None, kwargs |-> {},
                 raised |-> None, msg |-> None, probed |-> FALSE]

Next ==
    \/ \E i \in Instances, b \in InputBytes, k \in Kwargs : Construct(i, b, k)
    \/ \E i \in Instances, b \in InputBytes : SetContent(i, b)

Spec == Init /\ [][Next]_vars

\* the base64 / bytes loader on its own
NextLoads ==
    \/ \E d \in StrInputs : Loads("p", d, NoKwargs)
    \/ \E d \in BytesInputs, k \in Kwargs : Loads("p", d, k)
    \/ \E d \in OtherInputs, k \in Kwargs : Loads("p", d, k)

SpecLoads == Init /\ [][NextLoads]_vars

\* one object constructed, replaced and saved, and a second one loaded from
\* the file
NextIO ==
    \/ \E b \in InputBytes, k \in Kwargs : Construct("p", b, k)
    \/ \E b \in InputBytes : SetContent("p", b)
    \/ \E f \in Paths : Save("p", f)
    \/ \E f \in LoadInputs, k \in Kwargs : Load("q", f, k)

SpecIO == Init /\ [][NextIO]_vars

----------------------------------------------------------------------------
(* Properties *)

\* the four derived fields of an object
Meta(pg) == <<pg.suffix, pg.image_width, pg.image_height, pg.image_size>>

\* the five fields a caller reads
Fields(pg) == <<pg.content, Meta(pg)>>

\* the call made last went through the content setter with bytes `lastOp.arg.v`
SetterCall == lastOp.op \in {"init", "set"}

\* bytes libmagic cannot classify: nothing at all, or no known signature
Unclassifiable(value) ==
    Sniff(value) \in {"application/x-empty", "application/octet-stream"}

\* RFC 4648 base64: whole quads of alphabet characters, at most two padding
\* characters, and those at the very end
ValidBase64(s) ==
    /\ Len(s) % 4 = 0
    /\ \A k \in 1..Len(s) : s[k] = "=" \/ B64Value(s[k]) < 64
    /\ \A k \in 1..Len(s) : s[k] = "=" =>
          /\ k >= Len(s) - 1
          /\ \A m \in k..Len(s) : s[m] = "="

\* C1: a content replacement that fails leaves every field of the object as
\* it was before the call, and a construction that fails binds no object.
C1_FailedCallChangesNothing ==
    [][ (lastOp'.op \in {"init", "set"} /\ lastOp'.raised # None)
            => pages' = pages ]_vars

\* C2: the suffix of every object that exists is a member of IMAGE_FORMAT.
C2_SuffixInAllowList ==
    \A i \in Instances : pages[i].exists => pages[i].suffix \in IMAGE_FORMAT

\* C3: suffix, image_width and image_height of every object are the values
\* derived from the bytes its content getter returns now.
C3_MetadataOfCurrentContent ==
    \A i \in Instances : pages[i].exists =>
        /\ pages[i].suffix = DerivedSuffix(pages[i].content)
        /\ pages[i].image_width = ImagesizeGet(pages[i].content).width
        /\ pages[i].image_height = ImagesizeGet(pages[i].content).height

\* C4: image_size of every object equals the length of the content it holds.
C4_SizeIsContentLength ==
    \A i \in Instances :
        pages[i].exists => pages[i].image_size = Len(pages[i].content)

\* C4 witness: a replacement by bytes of another length has just failed on
\* an object, which still holds content and size of the old length.
C4_Witness ==
    /\ lastOp.op = "set" /\ lastOp.raised # None
    /\ Len(lastOp.arg.v) # Len(pages[lastOp.inst].content)
    /\ pages[lastOp.inst].image_size = Len(pages[lastOp.inst].content)
    /\ pages[lastOp.inst].image_size > 0

\* C5: bytes whose sniffed type maps to an extension outside IMAGE_FORMAT,
\* or to no extension, make construction and replacement fail with an
\* AssertionError whose message names the extension (".bin" when there is
\* none), before imagesize is called, and the bytes never become content.
C5_UnsupportedFailsBeforeProbe ==
    LET ext == GuessExtension(Sniff(lastOp.arg.v))
    IN  (SetterCall /\ (ext = None \/ ext \notin IMAGE_FORMAT)) =>
            /\ lastOp.raised = "AssertionError"
            /\ lastOp.msg = IF ext = None THEN ".bin" ELSE ext
            /\ ~lastOp.probed
            /\ pages[lastOp.inst].exists =>
                   pages[lastOp.inst].content # lastOp.arg.v

\* C5 witness: a TIFF buffer with a whole header was assigned to an object
\* and rejected.
C5_Witness ==
    /\ lastOp.op = "set"
    /\ Sniff(lastOp.arg.v) = "image/tiff" /\ Len(lastOp.arg.v) = 3
    /\ lastOp.raised = "AssertionError" /\ lastOp.msg = ".tiff"

\* C6 as claimed: construction from empty or unclassifiable bytes fails with
\* an error other than the AssertionError of the allow-list check, raised
\* before an extension was derived.
C6_UnrecognizedIsDistinctFailure ==
    (lastOp.op = "init" /\ Unclassifiable(lastOp.arg.v)) =>
        /\ lastOp.raised \notin {None, "AssertionError"}
        /\ lastOp.msg = None

\* C6 amended: construction from empty or unclassifiable bytes fails with the
\* AssertionError of the allow-list check itself, its message naming the
\* suffix ".bin", and imagesize is not called.
C6_UnrecognizedFailsAsBin ==
    (lastOp.op = "init" /\ Unclassifiable(lastOp.arg.v)) =>
        /\ lastOp.raised = "AssertionError"
        /\ lastOp.msg = ".bin"
        /\ ~lastOp.probed
        /\ ~pages[lastOp.inst].exists

\* C6 witness: construction from the empty buffer has just failed.
C6_Witness ==
    /\ lastOp.op = "init" /\ lastOp.arg.v = <<>>
    /\ lastOp.raised = "AssertionError"

\* C7: after a successful construction or replacement both dimensions are
\* non-negative integers, and both are 0 when the probe could not determine
\* them.
C7_DimensionsNonNegative ==
    (SetterCall /\ lastOp.raised = None) =>
        LET pg == pages[lastOp.inst] got == ImagesizeGet(lastOp.arg.v)
        IN  /\ pg.image_width \in Nat
            /\ pg.image_height \in Nat
            /\ (got.width < 0 \/ got.height < 0) =>
                   (pg.image_width = 0 /\ pg.image_height = 0)

\* C8: loads constructs from bytes as given and from a str after base64
\* decoding; a str that is not valid base64 and an argument that is neither
\* str nor bytes make it fail (ValueError for the type) with no object made.
C8_LoadsRejectsBadInput ==
    lastOp.op = "loads" =>
        /\ lastOp.arg.t = "bytes" =>
              /\ lastOp.raised = PageInfoInit(lastOp.arg.v, NoKwargs).raised
              /\ pages[lastOp.inst].exists =>
                     pages[lastOp.inst].content = lastOp.arg.v
        /\ (lastOp.arg.t = "str" /\ ~ValidBase64(lastOp.arg.v)) =>
              lastOp.raised # None /\ ~pages[lastOp.inst].exists
        /\ lastOp.arg.t = "other" =>
              lastOp.raised = "ValueError" /\ ~pages[lastOp.inst].exists

\* C9: save writes the content as it is and changes no field of the object,
\* and a load of the path just saved yields an object whose content and
\* metadata equal those of the object saved.
C9_SaveLoadRoundTrip ==
    [][ /\ lastOp'.op = "save" =>
              /\ pages' = pages
              /\ files'[lastOp'.arg.v] = pages[lastOp'.inst].content
        /\ (lastOp.op = "save" /\ lastOp'.op = "load"
              /\ lastOp'.arg.v = lastOp.arg.v) =>
              /\ lastOp'.raised = None
              /\ Fields(pages'[lastOp'.inst]) = Fields(pages[lastOp.inst])
      ]_vars

\* C10: objects as their construction left them that hold the same bytes
\* have the same suffix, width, height and size, whatever keyword arguments
\* each was given; and a call on one object changes no other object.
C10_MetadataFunctionOfBytes ==
    [][ /\ \A j \in Instances : j # lastOp'.inst => pages'[j] = pages[j]
        /\ \A i, j \in Instances :
              (built'[i] /\ built'[j]
                  /\ pages'[i].content = pages'[j].content) =>
                  Meta(pages'[i]) = Meta(pages'[j])
      ]_vars

\* C10 witness: two objects as constructed from the same bytes, the second
\* one given all four metadata fields as keyword arguments.
C10_Witness ==
    /\ built["p"] /\ built["q"]
    /\ pages["p"].content = pages["q"].content
    /\ lastOp.op = "init" /\ lastOp.kwargs = MetaFields
    /\ Meta(pages["p"]) = Meta(pages["q"])

====
